---- MODULE Spec2Model ----
(***************************************************************************)
(* Model of the Azure blob sink core of vector:                            *)
(*   src/sinks/azure_common/config.rs   build_client, build_healthcheck,   *)
(*                                      AzureBlobRetryLogic, request and   *)
(*                                      response types                     *)
(*   src/sinks/azure_common/service.rs  AzureBlobService (tower Service)   *)
(*                                                                         *)
(* Values of the external crates are modelled by what the sink reads of    *)
(* them: an error is either an HttpError carrying a u16 status or some     *)
(* other error carrying a text; a provider response is an opaque token.    *)
(***************************************************************************)
EXTENDS Integers, Sequences, FiniteSets, TLC

\* ------------------------------------------------------------------ bounds
MaxConn   == 2      \* distinct connection strings
MaxAcct   == 2      \* distinct storage account names
MaxName   == 2      \* distinct container names
MaxStatus == 1000   \* u16 statuses 0..MaxStatus (below, inside, above 100..999)
MaxFin    == 3      \* distinct finalizer handles
MaxTakes  == 3      \* take_finalizers calls on one request
MaxLen    == 2      \* bytes in one blob
MaxCount  == 1      \* metadata.count
MaxBytes  == 1      \* metadata.byte_size
MaxKey    == 2      \* distinct partition keys
NumCalls  == 2      \* concurrent calls of the service

\* ------------------------------------------------------ values and helpers
None    == [some |-> FALSE]
Some(v) == [some |-> TRUE, val |-> v]

Ok(v)  == [ok |-> TRUE, val |-> v]
Err(e) == [ok |-> FALSE, err |-> e]

RECURSIVE SeqsUpTo(_, _)
SeqsUpTo(S, n) ==
    IF n = 0 THEN {<<>>}
    ELSE LET shorter == SeqsUpTo(S, n - 1)
         IN  shorter \cup {Append(s, x) : s \in shorter, x \in S}

Range(s) == {s[i] : i \in 1..Len(s)}

\* Errors as the sink sees them: downcast_ref::<HttpError>() succeeds exactly
\* on the first kind, and err.status() is its u16 status.
HttpError(status) == [kind |-> "HttpError", status |-> status]
OtherError(text)  == [kind |-> "Other", text |-> text]
Message(text)     == [kind |-> "Message", text |-> text]

StatusValues == 0..MaxStatus
OtherTexts   == {"connection reset", "timed out"}
HttpErrors   == {HttpError(s) : s \in StatusValues}
OtherErrors  == {OtherError(t) : t \in OtherTexts}

\* http::StatusCode::from_u16: a status code is a number in 100..999.
StatusCode_from_u16(src) ==
    IF src < 100 \/ src >= 1000 THEN Err(Message("invalid status code")) ELSE Ok(src)

is_server_error(status) == 500 <= status /\ status < 600

TOO_MANY_REQUESTS == 429
FORBIDDEN         == 403
NOT_FOUND         == 404

\* ------------------------------------------------------------------- state
VARIABLES
    build_args,           \* arguments of the build_client call made at startup
    build_result,         \* what that call returned
    hc_pc,                \* healthcheck future: "none" | "built" | "awaiting" | "done"
    hc_container_name,    \* container_name moved into the healthcheck future
    get_properties_calls, \* get_properties requests the future has issued
    hc_outcome,           \* what get_properties answered
    hc_result,            \* what the healthcheck future resolved to
    retry_input,          \* last value handed to the retry logic
    retry_output,         \* what the retry logic answered
    finalizers,           \* request.metadata.finalizers
    original_finalizers,  \* the finalizers the request was built with
    count,                \* request.metadata.count
    taken,                \* what each take_finalizers call returned, in order
    acked,                \* what ack_size last returned
    client,               \* AzureBlobService.client, the shared ContainerClient
    pc,                   \* per call: "idle" | "ready" | "called" | "inflight" | "done" | "acked"
    readiness,            \* per call: what poll_ready returned
    request,              \* per call: the AzureBlobRequest handed to call
    blob_client,          \* per call: the BlobClient resolved from the container client
    puts,                 \* per call: the put_block_blob requests issued
    outcome,              \* per call: what the provider answered
    signals,              \* per call: internal events emitted
    result,               \* per call: what the future resolved to
    driver                \* per call: what the driver read from the response

startupVars == <<build_args, build_result, hc_pc, hc_container_name,
                 get_properties_calls, hc_outcome, hc_result>>
retryVars   == <<retry_input, retry_output>>
requestVars == <<finalizers, original_finalizers, count, taken, acked>>
serviceVars == <<client, pc, readiness, request, blob_client, puts, outcome,
                 signals, result, driver>>
vars == <<startupVars, retryVars, requestVars, serviceVars>>

\* ===================================================== config.rs: build_client
ConnectionStrings == 1..MaxConn
StorageAccounts   == 1..MaxAcct
ContainerNames    == 1..MaxName

OptConnectionStrings == {None} \cup {Some(c) : c \in ConnectionStrings}
OptStorageAccounts   == {None} \cup {Some(a) : a \in StorageAccounts}

\* The two messages of build_client (without the code quotes around the names).
NeitherProvided == "Either connection_string or storage_account has to be provided"
BothProvided    == "connection_string and storage_account can't be provided at the same time"

ContainerClient(auth, credential, container_name) ==
    [auth |-> auth, credential |-> credential, container |-> container_name]

\* StorageAccountClient::new_connection_string returns a Result; `accepted`
\* is whether the storage crate could parse the connection string.
new_connection_string(connection_string, accepted) ==
    IF accepted THEN Ok([auth |-> "connection_string", credential |-> connection_string])
    ELSE Err([kind |-> "ConnectionString", text |-> connection_string])

\* build_client with the both-given arm lost: the connection string wins.
build_client_first_wins(connection_string, storage_account, container_name, accepted) ==
    CASE connection_string.some ->
            LET account == new_connection_string(connection_string.val, accepted)
            IN  IF account.ok
                THEN Ok(ContainerClient(account.val.auth, account.val.credential,
                                        container_name))
                ELSE Err(account.err)
      [] ~connection_string.some /\ storage_account.some ->
            Ok(ContainerClient("token_credential", storage_account.val, container_name))
      [] ~connection_string.some /\ ~storage_account.some ->
            Err(Message(NeitherProvided))

build_client(connection_string, storage_account, container_name, accepted) ==
    CASE connection_string.some /\ ~storage_account.some ->
            LET account == new_connection_string(connection_string.val, accepted)
            IN  IF account.ok
                THEN Ok(ContainerClient(account.val.auth, account.val.credential,
                                        container_name))
                ELSE Err(account.err)
      [] ~connection_string.some /\ storage_account.some ->
            Ok(ContainerClient("token_credential", storage_account.val, container_name))
      [] ~connection_string.some /\ ~storage_account.some ->
            Err(Message(NeitherProvided))
      [] connection_string.some /\ storage_account.some ->
            Err(Message(BothProvided))

Clients ==
    {ContainerClient("connection_string", c, n) : c \in ConnectionStrings, n \in ContainerNames}
    \cup {ContainerClient("token_credential", a, n) : a \in StorageAccounts, n \in ContainerNames}

NotCalled == Err([kind |-> "NotCalled"])

BuildClient(connection_string, storage_account, container_name, accepted) ==
    /\ build_result = NotCalled
    /\ build_args' = [connection_string |-> connection_string,
                      storage_account   |-> storage_account,
                      container_name    |-> container_name,
                      accepted          |-> accepted]
    /\ build_result' = build_client(connection_string, storage_account,
                                    container_name, accepted)
    /\ UNCHANGED <<hc_pc, hc_container_name, get_properties_calls, hc_outcome, hc_result>>
    /\ UNCHANGED <<retryVars, requestVars, serviceVars>>

\* ================================================ config.rs: build_healthcheck
Properties == {"properties"}

GetPropertiesOutcomes ==
    {Ok(p) : p \in Properties} \cup {Err(e) : e \in HttpErrors \cup OtherErrors}

InvalidCredentials          == [kind |-> "InvalidCredentials"]
UnknownContainer(container) == [kind |-> "UnknownContainer", container |-> container]
Unknown(status)             == [kind |-> "Unknown", status |-> status]

\* The healthcheck match with the NOT_FOUND arm lost.
healthcheck_resp_no_404(req, container_name) ==
    IF req.ok THEN Ok("unit")
    ELSE LET reason == req.err
         IN  IF reason.kind = "HttpError"
             THEN LET parsed == StatusCode_from_u16(reason.status)
                  IN  CASE parsed.ok /\ parsed.val = FORBIDDEN -> Err(InvalidCredentials)
                        [] parsed.ok /\ parsed.val # FORBIDDEN -> Err(Unknown(parsed.val))
                        [] ~parsed.ok -> Err(Message("unknown status code"))
             ELSE Err(reason)

\* The healthcheck match answering every unclassified error with the same text.
healthcheck_resp_flatten(req, container_name) ==
    IF req.ok THEN Ok("unit")
    ELSE LET reason == req.err
         IN  IF reason.kind = "HttpError"
             THEN LET parsed == StatusCode_from_u16(reason.status)
                  IN  CASE parsed.ok /\ parsed.val = FORBIDDEN -> Err(InvalidCredentials)
                        [] parsed.ok /\ parsed.val = NOT_FOUND ->
                                Err(UnknownContainer(container_name))
                        [] parsed.ok /\ parsed.val \notin {FORBIDDEN, NOT_FOUND} ->
                                Err(Unknown(parsed.val))
                        [] ~parsed.ok -> Err(Message("unknown status code"))
             ELSE Err(Message("unknown status code"))

\* The match of the healthcheck future on the get_properties result.
healthcheck_resp(req, container_name) ==
    IF req.ok THEN Ok("unit")
    ELSE LET reason == req.err
         IN  IF reason.kind = "HttpError"
             THEN LET parsed == StatusCode_from_u16(reason.status)
                  IN  CASE parsed.ok /\ parsed.val = FORBIDDEN -> Err(InvalidCredentials)
                        [] parsed.ok /\ parsed.val = NOT_FOUND ->
                                Err(UnknownContainer(container_name))
                        [] parsed.ok /\ parsed.val \notin {FORBIDDEN, NOT_FOUND} ->
                                Err(Unknown(parsed.val))
                        [] ~parsed.ok -> Err(Message("unknown status code"))
             ELSE Err(reason)

\* build_healthcheck only boxes the future; nothing runs until it is polled.
BuildHealthcheck(container_name) ==
    /\ build_result.ok
    /\ hc_pc = "none"
    /\ hc_pc' = "built"
    /\ hc_container_name' = container_name
    /\ UNCHANGED <<build_args, build_result, get_properties_calls, hc_outcome, hc_result>>
    /\ UNCHANGED <<retryVars, requestVars, serviceVars>>

\* First poll: client.get_properties().into_future() is issued and awaited.
HealthcheckRequest ==
    /\ hc_pc = "built"
    /\ hc_pc' = "awaiting"
    /\ get_properties_calls' = get_properties_calls + 1
    /\ UNCHANGED <<build_args, build_result, hc_container_name, hc_outcome, hc_result>>
    /\ UNCHANGED <<retryVars, requestVars, serviceVars>>

HealthcheckComplete(req) ==
    /\ hc_pc = "awaiting"
    /\ hc_pc' = "done"
    /\ hc_outcome' = req
    /\ hc_result' = healthcheck_resp(req, hc_container_name)
    /\ UNCHANGED <<build_args, build_result, hc_container_name, get_properties_calls>>
    /\ UNCHANGED <<retryVars, requestVars, serviceVars>>

StartupIdle ==
    /\ build_args = [connection_string |-> None, storage_account |-> None,
                     container_name |-> 0, accepted |-> FALSE]
    /\ build_result = NotCalled
    /\ hc_pc = "none"
    /\ hc_container_name = 0
    /\ get_properties_calls = 0
    /\ hc_outcome = NotCalled
    /\ hc_result = NotCalled

\* ============================================ config.rs: AzureBlobRetryLogic
\* is_retriable_error without the TOO_MANY_REQUESTS disjunct.
is_retriable_error_5xx_only(error) ==
    LET parsed == StatusCode_from_u16(error.status)
    IN  IF parsed.ok THEN is_server_error(parsed.val) ELSE FALSE

\* RetryLogic::Error is HttpError: the retry logic is only handed HTTP errors.
is_retriable_error(error) ==
    LET parsed == StatusCode_from_u16(error.status)
    IN  IF parsed.ok
        THEN is_server_error(parsed.val) \/ parsed.val = TOO_MANY_REQUESTS
        ELSE FALSE

\* should_retry_response retrying a response that carries no events.
should_retry_response_empty(response) ==
    IF response.count = 0 THEN "Retry" ELSE "Successful"

should_retry_response(response) == "Successful"

ProviderResponses == {"etag-1", "etag-2"}

AzureBlobResponse(inner, n, events_byte_size) ==
    [inner |-> inner, count |-> n, events_byte_size |-> events_byte_size]

Responses ==
    {AzureBlobResponse(i, n, b) : i \in ProviderResponses, n \in 0..MaxCount, b \in 0..MaxBytes}

IsRetriableError(error) ==
    /\ retry_input' = error
    /\ retry_output' = [called |-> "is_retriable_error",
                        retriable |-> is_retriable_error(error)]
    /\ UNCHANGED <<startupVars, requestVars, serviceVars>>

ShouldRetryResponse(response) ==
    /\ retry_input' = response
    /\ retry_output' = [called |-> "should_retry_response",
                        action |-> should_retry_response(response)]
    /\ UNCHANGED <<startupVars, requestVars, serviceVars>>

RetryIdle ==
    /\ retry_input = [kind |-> "NotCalled"]
    /\ retry_output = [called |-> "nothing"]

\* ======================================= config.rs: Ackable, Finalizable
FinalizerHandles == 1..MaxFin

\* An EventFinalizers collection: finalizer handles in order, none twice.
FinalizerCollections ==
    {f \in SeqsUpTo(FinalizerHandles, MaxFin) : Cardinality(Range(f)) = Len(f)}

\* take_finalizers cloning the collection instead of moving it out.
take_finalizers_clone(fin) == [returned |-> fin, left |-> fin]

\* std::mem::take: hands out the current value, leaves Default (empty) behind.
take_finalizers(fin) == [returned |-> fin, left |-> <<>>]

ack_size(metadata_count) == metadata_count

TakeFinalizers ==
    /\ Len(taken) < MaxTakes
    /\ LET t == take_finalizers(finalizers)
       IN  /\ taken' = Append(taken, t.returned)
           /\ finalizers' = t.left
    /\ UNCHANGED <<original_finalizers, count, acked>>
    /\ UNCHANGED <<startupVars, retryVars, serviceVars>>

AckSize ==
    /\ acked # ack_size(count)
    /\ acked' = ack_size(count)
    /\ UNCHANGED <<finalizers, original_finalizers, count, taken>>
    /\ UNCHANGED <<startupVars, retryVars, serviceVars>>

RequestInit(collections, counts) ==
    /\ finalizers \in collections
    /\ original_finalizers = finalizers
    /\ count \in counts
    /\ taken = <<>>
    /\ acked = -1

\* ================================================ service.rs: AzureBlobService
Calls == 1..NumCalls

ByteValues       == {0, 255}
Blobs            == SeqsUpTo(ByteValues, MaxLen)
ContentTypes     == {"text/plain", "application/x-ndjson"}
ContentEncodings == {None, Some("gzip")}
PartitionKeys    == 1..MaxKey

AzureBlobMetadata(partition_key, n, byte_size) ==
    [partition_key |-> partition_key, count |-> n, byte_size |-> byte_size]

AzureBlobRequest(blob_data, content_encoding, content_type, metadata) ==
    [blob_data |-> blob_data, content_encoding |-> content_encoding,
     content_type |-> content_type, metadata |-> metadata]

Requests ==
    {AzureBlobRequest(d, e, t, AzureBlobMetadata(k, n, b)) :
        d \in Blobs, e \in ContentEncodings, t \in ContentTypes,
        k \in PartitionKeys, n \in 0..MaxCount, b \in 0..MaxBytes}

\* What the driver of the concurrent runs submits: plain-text requests whose
\* metadata describes the payload.
PlainRequests ==
    {r \in Requests : /\ r.content_encoding = None
                      /\ r.content_type = "text/plain"
                      /\ r.metadata.partition_key = 1
                      /\ r.metadata.count = r.metadata.byte_size
                      /\ Len(r.blob_data) = MaxLen
                      /\ Range(r.blob_data) \subseteq {0}}

PutStatuses == {99, 400, 404, 429, 503, 1000}
PutOutcomes ==
    {Ok(i) : i \in ProviderResponses}
    \cup {Err(HttpError(s)) : s \in PutStatuses}
    \cup {Err(e) : e \in OtherErrors}

\* Internal events of the sink.
AzureBlobResponseError(status) == [event |-> "AzureBlobResponseError", code |-> status]
AzureBlobHttpError(error)      == [event |-> "AzureBlobHttpError", error |-> error]
BytesSent(byte_size, protocol) ==
    [event |-> "BytesSent", byte_size |-> byte_size, protocol |-> protocol]

to_string(reason) == reason.text

poll_ready(self) == [poll |-> "Ready", val |-> Ok("unit")]

\* The blob client of one call: the shared container client and the blob name.
BlobClient(container_client, blob_name) ==
    [container_client |-> container_client, blob_name |-> blob_name]

\* The request builder of the async block, as handed to the provider.
put_block_blob(blob, req) ==
    [blob             |-> blob,
     body             |-> req.blob_data,
     content_type     |-> req.content_type,
     content_encoding |-> req.content_encoding]

\* inspect_err without the downcast: every failure is reported as a transport error.
inspect_no_downcast(answer, byte_size) ==
    IF answer.ok THEN <<BytesSent(byte_size, "https")>>
    ELSE <<AzureBlobHttpError("error")>>

\* inspect_err / inspect_ok: the events one provider answer makes the call emit.
inspect(answer, byte_size) ==
    IF answer.ok THEN <<BytesSent(byte_size, "https")>>
    ELSE IF answer.err.kind = "HttpError"
         THEN <<AzureBlobResponseError(answer.err.status)>>
         ELSE <<AzureBlobHttpError(to_string(answer.err))>>

\* The response built with the payload length in place of metadata.byte_size.
call_result_payload_len(answer, req) ==
    IF answer.ok
    THEN Ok(AzureBlobResponse(answer.val, req.metadata.count, Len(req.blob_data)))
    ELSE Err(answer.err)

\* map_err(|err| err.into()) keeps the error; map builds the response from the
\* provider's answer and the request's metadata.
call_result(answer, req) ==
    IF answer.ok
    THEN Ok(AzureBlobResponse(answer.val, req.metadata.count, req.metadata.byte_size))
    ELSE Err(answer.err)

event_status(response) == "Delivered"

events_sent(response) ==
    [count |-> response.count, byte_size |-> response.events_byte_size, output |-> None]

NoRequest == AzureBlobRequest(<<>>, None, "", AzureBlobMetadata(0, 0, 0))
NoBlob    == BlobClient(ContainerClient("", 0, 0), 0)
NotRead   == [event_status |-> "", events_sent |-> [count |-> 0, byte_size |-> 0, output |-> None]]

PollReady(c) ==
    /\ pc[c] = "idle"
    /\ pc' = [pc EXCEPT ![c] = "ready"]
    /\ readiness' = [readiness EXCEPT ![c] = poll_ready(client)]
    /\ UNCHANGED <<client, request, blob_client, puts, outcome, signals, result, driver>>
    /\ UNCHANGED <<startupVars, retryVars, requestVars>>

\* The synchronous part of call: the blob client is resolved, the future boxed.
Call(c, req) ==
    /\ pc[c] = "ready"
    /\ pc' = [pc EXCEPT ![c] = "called"]
    /\ request' = [request EXCEPT ![c] = req]
    /\ blob_client' = [blob_client EXCEPT ![c] = BlobClient(client, req.metadata.partition_key)]
    /\ UNCHANGED <<client, readiness, puts, outcome, signals, result, driver>>
    /\ UNCHANGED <<startupVars, retryVars, requestVars>>

\* First poll of the future: the upload is built, issued and awaited.
Upload(c) ==
    /\ pc[c] = "called"
    /\ pc' = [pc EXCEPT ![c] = "inflight"]
    /\ puts' = [puts EXCEPT ![c] = Append(@, put_block_blob(blob_client[c], request[c]))]
    /\ UNCHANGED <<client, readiness, request, blob_client, outcome, signals, result, driver>>
    /\ UNCHANGED <<startupVars, retryVars, requestVars>>

\* Complete retrying a failed upload once instead of resolving.
Complete_retry(c, answer) ==
    /\ pc[c] = "inflight"
    /\ IF ~answer.ok /\ Len(puts[c]) < 2
       THEN /\ puts' = [puts EXCEPT ![c] = Append(@, put_block_blob(blob_client[c], request[c]))]
            /\ UNCHANGED <<pc, outcome, signals, result>>
       ELSE /\ pc' = [pc EXCEPT ![c] = "done"]
            /\ outcome' = [outcome EXCEPT ![c] = answer]
            /\ signals' = [signals EXCEPT ![c] = @ \o inspect(answer, Len(request[c].blob_data))]
            /\ result' = [result EXCEPT ![c] = call_result(answer, request[c])]
            /\ puts' = puts
    /\ UNCHANGED <<client, readiness, request, blob_client, driver>>
    /\ UNCHANGED <<startupVars, retryVars, requestVars>>

\* Complete keeping the last failure in a slot every call resolves from.
Complete_shared_failure(c, answer) ==
    /\ pc[c] = "inflight"
    /\ pc' = [pc EXCEPT ![c] = "done"]
    /\ outcome' = [outcome EXCEPT ![c] = answer]
    /\ signals' = [signals EXCEPT ![c] = @ \o inspect(answer, Len(request[c].blob_data))]
    /\ result' = IF answer.ok
                 THEN [result EXCEPT ![c] = call_result(answer, request[c])]
                 ELSE [d \in Calls |-> IF d = c \/ pc[d] \in {"done", "acked"}
                                       THEN Err(answer.err) ELSE result[d]]
    /\ UNCHANGED <<client, readiness, request, blob_client, puts, driver>>
    /\ UNCHANGED <<startupVars, retryVars, requestVars>>

\* The provider answers: events are emitted and the future resolves.
Complete(c, answer) ==
    /\ pc[c] = "inflight"
    /\ pc' = [pc EXCEPT ![c] = "done"]
    /\ outcome' = [outcome EXCEPT ![c] = answer]
    /\ signals' = [signals EXCEPT ![c] = @ \o inspect(answer, Len(request[c].blob_data))]
    /\ result' = [result EXCEPT ![c] = call_result(answer, request[c])]
    /\ UNCHANGED <<client, readiness, request, blob_client, puts, driver>>
    /\ UNCHANGED <<startupVars, retryVars, requestVars>>

\* The driver reads a response through DriverResponse.
DriverRead(c) ==
    /\ pc[c] = "done"
    /\ result[c].ok
    /\ pc' = [pc EXCEPT ![c] = "acked"]
    /\ driver' = [driver EXCEPT ![c] = [event_status |-> event_status(result[c].val),
                                        events_sent  |-> events_sent(result[c].val)]]
    /\ UNCHANGED <<client, readiness, request, blob_client, puts, outcome, signals, result>>
    /\ UNCHANGED <<startupVars, retryVars, requestVars>>

ServiceInit(clients) ==
    /\ client \in clients
    /\ pc = [c \in Calls |-> "idle"]
    /\ readiness = [c \in Calls |-> [poll |-> "NotPolled", val |-> Ok("unit")]]
    /\ request = [c \in Calls |-> NoRequest]
    /\ blob_client = [c \in Calls |-> NoBlob]
    /\ puts = [c \in Calls |-> <<>>]
    /\ outcome = [c \in Calls |-> NotCalled]
    /\ signals = [c \in Calls |-> <<>>]
    /\ result = [c \in Calls |-> NotCalled]
    /\ driver = [c \in Calls |-> NotRead]

DefaultClient == ContainerClient("token_credential", 1, 1)

\* ============================================================ specifications
\* Startup: build_client once, then the healthcheck on the client it returned.
InitStartup ==
    /\ StartupIdle /\ RetryIdle /\ RequestInit({<<>>}, {0}) /\ ServiceInit({DefaultClient})

NextStartup ==
    \/ \E cs \in OptConnectionStrings, sa \in OptStorageAccounts,
          n \in ContainerNames, accepted \in BOOLEAN : BuildClient(cs, sa, n, accepted)
    \/ \E n \in ContainerNames : BuildHealthcheck(n)
    \/ HealthcheckRequest
    \/ \E req \in GetPropertiesOutcomes : HealthcheckComplete(req)

SpecStartup == InitStartup /\ [][NextStartup]_vars

\* The retry logic, consulted with any HTTP error and any response.
InitRetry ==
    /\ StartupIdle /\ RetryIdle /\ RequestInit({<<>>}, {0}) /\ ServiceInit({DefaultClient})

NextRetry ==
    \/ \E e \in HttpErrors : IsRetriableError(e)
    \/ \E r \in Responses : ShouldRetryResponse(r)

SpecRetry == InitRetry /\ [][NextRetry]_vars

\* One request, its finalizers taken any number of times.
InitRequest ==
    /\ StartupIdle /\ RetryIdle /\ ServiceInit({DefaultClient})
    /\ RequestInit(FinalizerCollections, 0..MaxCount)

NextRequest == TakeFinalizers \/ AckSize

SpecRequest == InitRequest /\ [][NextRequest]_vars

\* One delivery at a time, any request.
Init ==
    /\ StartupIdle /\ RetryIdle /\ RequestInit({<<>>}, {0}) /\ ServiceInit(Clients)

Next ==
    \/ PollReady(1)
    \/ \E req \in Requests : Call(1, req)
    \/ Upload(1)
    \/ \E answer \in PutOutcomes : Complete(1, answer)
    \/ DriverRead(1)

Spec == Init /\ [][Next]_vars

\* Concurrent deliveries sharing one client.
InitConcurrent ==
    /\ StartupIdle /\ RetryIdle /\ RequestInit({<<>>}, {0}) /\ ServiceInit({DefaultClient})

NextConcurrent ==
    \E c \in Calls :
        \/ PollReady(c)
        \/ \E req \in PlainRequests : Call(c, req)
        \/ Upload(c)
        \/ \E answer \in PutOutcomes : Complete(c, answer)
        \/ DriverRead(c)

SpecConcurrent == InitConcurrent /\ [][NextConcurrent]_vars

\* ==================================================================== claims
Issued(c)   == pc[c] \in {"inflight", "done", "acked"}
Resolved(c) == pc[c] \in {"done", "acked"}

\* C1: every call issues exactly one put_block_blob to the provider, whatever
\* the provider answers: none before the future is polled, one from then on,
\* never a second one after a failure or after a success.
C1_ExactlyOneUpload ==
    \A c \in Calls :
        /\ Len(puts[c]) = (IF Issued(c) THEN 1 ELSE 0)
        /\ Resolved(c) => puts[c] = <<put_block_blob(
                              BlobClient(client, request[c].metadata.partition_key),
                              request[c])>>

C1_Witness ==
    /\ pc[1] = "done" /\ ~outcome[1].ok /\ outcome[1].err.kind = "HttpError"
    /\ outcome[1].err.status = 503 /\ Len(puts[1]) = 1

BuildClientCalled == build_result # NotCalled
BothGiven    == build_args.connection_string.some /\ build_args.storage_account.some
NeitherGiven == ~build_args.connection_string.some /\ ~build_args.storage_account.some
OnlyConnectionString ==
    build_args.connection_string.some /\ ~build_args.storage_account.some
OnlyStorageAccount ==
    ~build_args.connection_string.some /\ build_args.storage_account.some

\* C2 as stated: build_client returns an error if and only if both or neither
\* credential mode is given, and a client if and only if exactly one is given.
C2_ErrorIffBothOrNeither ==
    BuildClientCalled =>
        /\ ~build_result.ok <=> (BothGiven \/ NeitherGiven)
        /\ build_result.ok <=> (OnlyConnectionString \/ OnlyStorageAccount)

\* C2 amended: build_client returns its own error whenever both or neither
\* credential mode is given; it returns a token-credential client whenever only
\* storage_account is given; when only connection_string is given it returns a
\* client if the storage client constructor accepts the connection string, and
\* that constructor's error otherwise.
C2_BuildClientAmended ==
    BuildClientCalled =>
        /\ BothGiven => build_result = Err(Message(BothProvided))
        /\ NeitherGiven => build_result = Err(Message(NeitherProvided))
        /\ OnlyStorageAccount =>
              build_result = Ok(ContainerClient("token_credential",
                                   build_args.storage_account.val,
                                   build_args.container_name))
        /\ OnlyConnectionString =>
              /\ build_result.ok <=> build_args.accepted
              /\ build_result.ok =>
                    build_result.val = ContainerClient("connection_string",
                                           build_args.connection_string.val,
                                           build_args.container_name)
              /\ ~build_result.ok => build_result.err.kind = "ConnectionString"

C2_Witness ==
    /\ BuildClientCalled /\ OnlyConnectionString
    /\ ~build_args.accepted /\ ~build_result.ok

\* C3: is_retriable_error answers true exactly for the statuses 500..599 and
\* 429, and false for every other status, the unparseable ones included.
C3_RetriableIff5xxOr429 ==
    retry_output.called = "is_retriable_error" =>
        (retry_output.retriable <=>
            (retry_input.status \in 500..599 \/ retry_input.status = 429))

C3_Witness ==
    /\ retry_output.called = "is_retriable_error"
    /\ retry_input.status = 429 /\ retry_output.retriable

\* C4: a call whose upload succeeded resolves to a response carrying the
\* provider's answer, metadata.count and metadata.byte_size, whatever the
\* payload length; the driver reads Delivered and these two numbers from it.
C4_ResponseCopiesMetadata ==
    \A c \in Calls :
        /\ (Resolved(c) /\ outcome[c].ok) =>
              /\ result[c].ok
              /\ result[c].val.inner = outcome[c].val
              /\ result[c].val.count = request[c].metadata.count
              /\ result[c].val.events_byte_size = request[c].metadata.byte_size
        /\ pc[c] = "acked" =>
              /\ driver[c].event_status = "Delivered"
              /\ driver[c].events_sent.count = request[c].metadata.count
              /\ driver[c].events_sent.byte_size = request[c].metadata.byte_size

C4_Witness ==
    /\ pc[1] = "acked"
    /\ Len(request[1].blob_data) = 2 /\ request[1].metadata.byte_size = 1
    /\ request[1].metadata.count = 1
    /\ result[1].val.events_byte_size = 1

Occurrences(h) ==
    Cardinality({<<i, j>> \in (1..Len(taken)) \X (1..MaxFin + 1) :
                    j <= Len(taken[i]) /\ taken[i][j] = h})

\* C5: the first take_finalizers returns the collection the request was built
\* with and leaves the request's collection empty; every later one returns an
\* empty collection; no finalizer is handed out twice.
C5_FinalizersTakenOnce ==
    /\ Len(taken) >= 1 => (taken[1] = original_finalizers /\ finalizers = <<>>)
    /\ Len(taken) = 0 => finalizers = original_finalizers
    /\ \A i \in 2..Len(taken) : taken[i] = <<>>
    /\ \A h \in Range(original_finalizers) : Occurrences(h) <= 1

C5_Witness ==
    /\ Len(taken) >= 2 /\ Len(original_finalizers) >= 2
    /\ taken[1] = original_finalizers /\ taken[2] = <<>>

HealthcheckDone == hc_pc = "done"
HttpFailure     == ~hc_outcome.ok /\ hc_outcome.err.kind = "HttpError"

\* C6: the healthcheck issues one get_properties request and answers Ok on
\* success, InvalidCredentials on 403, UnknownContainer with the container
\* name it was built with on 404, and Unknown{status} on any other status in
\* 100..999.
C6_HealthcheckMapping ==
    /\ get_properties_calls = (IF hc_pc \in {"awaiting", "done"} THEN 1 ELSE 0)
    /\ HealthcheckDone =>
          /\ hc_outcome.ok => hc_result = Ok("unit")
          /\ HttpFailure =>
                LET status == hc_outcome.err.status
                IN  /\ status = 403 => hc_result = Err(InvalidCredentials)
                    /\ status = 404 =>
                          hc_result = Err(UnknownContainer(hc_container_name))
                    /\ (status \in 100..999 /\ status \notin {403, 404}) =>
                          hc_result = Err(Unknown(status))

C6_Witness ==
    /\ HealthcheckDone /\ HttpFailure /\ hc_outcome.err.status = 404
    /\ hc_container_name # build_result.val.container
    /\ hc_result = Err(UnknownContainer(hc_container_name))

Unparseable(status) == status < 100 \/ status > 999

\* C7 as stated: when get_properties fails with an error that is no HTTP error,
\* or with an HTTP error whose status is unparseable, the healthcheck returns
\* that very error.
C7_UnclassifiedPropagated ==
    (HealthcheckDone /\ ~hc_outcome.ok) =>
        ((hc_outcome.err.kind # "HttpError" \/ Unparseable(hc_outcome.err.status))
            => hc_result = Err(hc_outcome.err))

\* C7 amended: when get_properties fails with an error that is no HTTP error,
\* the healthcheck returns that very error; when it fails with an HTTP error
\* whose status is unparseable, the healthcheck returns a new error with the
\* text "unknown status code" in its place.
C7_UnclassifiedAmended ==
    (HealthcheckDone /\ ~hc_outcome.ok) =>
        /\ hc_outcome.err.kind # "HttpError" => hc_result = Err(hc_outcome.err)
        /\ (hc_outcome.err.kind = "HttpError" /\ Unparseable(hc_outcome.err.status))
              => hc_result = Err(Message("unknown status code"))

C7_Witness ==
    /\ HealthcheckDone /\ HttpFailure
    /\ hc_outcome.err.status = 99
    /\ hc_result = Err(Message("unknown status code"))

\* C8: a resolved call has emitted exactly one internal event. A failure that
\* is an HttpError emits AzureBlobResponseError with its status and resolves
\* to that error; a failure that carries no status emits AzureBlobHttpError
\* with the error's text and resolves to that error; a success emits BytesSent
\* with the payload length. Nothing is emitted before the call resolves.
C8_OneSignalPerOutcome ==
    \A c \in Calls :
        /\ ~Resolved(c) => signals[c] = <<>>
        /\ Resolved(c) =>
              /\ Len(signals[c]) = 1
              /\ outcome[c].ok =>
                    signals[c][1] = BytesSent(Len(request[c].blob_data), "https")
              /\ (~outcome[c].ok /\ outcome[c].err.kind = "HttpError") =>
                    /\ signals[c][1] = AzureBlobResponseError(outcome[c].err.status)
                    /\ result[c] = Err(HttpError(outcome[c].err.status))
              /\ (~outcome[c].ok /\ outcome[c].err.kind = "Other") =>
                    /\ signals[c][1] = AzureBlobHttpError(outcome[c].err.text)
                    /\ result[c] = Err(OtherError(outcome[c].err.text))

C8_Witness ==
    /\ pc[1] = "done" /\ ~outcome[1].ok /\ outcome[1].err.kind = "HttpError"
    /\ outcome[1].err.status = 503
    /\ signals[1] = <<AzureBlobResponseError(503)>>
    /\ Len(request[1].blob_data) # request[1].metadata.byte_size

\* What a call resolves to, read from its own request and its own answer.
OwnResult(c) ==
    /\ result[c].ok <=> outcome[c].ok
    /\ result[c].ok =>
          /\ result[c].val.inner = outcome[c].val
          /\ result[c].val.count = request[c].metadata.count
          /\ result[c].val.events_byte_size = request[c].metadata.byte_size
    /\ ~result[c].ok => result[c].err = outcome[c].err

C9_Step ==
    /\ client' = client
    /\ \A c \in Calls :
          /\ Resolved(c) => (result'[c] = result[c] /\ outcome'[c] = outcome[c])
          /\ pc[c] # "idle" =>
                (request'[c] = request[c] \/ pc[c] = "ready")
          /\ (pc[c] = "inflight" /\ pc'[c] = "done" /\ ~result'[c].ok) =>
                \A d \in Calls \ {c} :
                    /\ pc'[d] = pc[d] /\ result'[d] = result[d]
                    /\ request'[d] = request[d] /\ readiness'[d] = readiness[d]

C9_State ==
    \A c \in Calls :
        /\ Resolved(c) => OwnResult(c)
        /\ pc[c] # "idle" => readiness[c] = [poll |-> "Ready", val |-> Ok("unit")]
        /\ pc[c] \notin {"idle", "ready"} => blob_client[c].container_client = client

\* C9: under every interleaving of calls sharing one client, the client is
\* never modified, each call resolves from its own request and its own answer,
\* a failing call changes nothing of any other call, a resolved call's result
\* stays what it was, and poll_ready answers Ready whenever it is asked.
C9_CallsIndependent == [](C9_State) /\ [][C9_Step]_vars

C9_Witness ==
    /\ pc[1] = "done" /\ ~result[1].ok
    /\ pc[2] = "acked" /\ result[2].ok
    /\ request[2].metadata.count # request[1].metadata.count

\* C10: should_retry_response answers Successful for every response, whatever
\* its provider answer, count and byte size.
C10_AlwaysSuccessful ==
    retry_output.called = "should_retry_response" => retry_output.action = "Successful"

C10_Witness ==
    /\ retry_output.called = "should_retry_response"
    /\ retry_input.count = 0 /\ retry_input.events_byte_size = MaxBytes
    /\ retry_output.action = "Successful"

====
